---------------------------- MODULE Spec2Model ----------------------------
(***************************************************************************)
(* Model of the farm-survey Telegram bot: the per-conversation survey      *)
(* state machine (handlers/survey_handlers.py, dispatched as configured in *)
(* main.py), the photo handler with its detached upload coroutines         *)
(* (handlers/photo_handlers.py), the Drive gateway's find-or-create folder *)
(* protocol (services/drive_service.py) and the sequential upload queue    *)
(* (services/upload_queue.py).                                             *)
(*                                                                         *)
(* Strings are modelled as sequences of words: the word sequence           *)
(* <<"fert", "type", "urea">> is the Python string "fert_type_urea".       *)
(***************************************************************************)
EXTENDS Integers, Sequences, FiniteSets, TLC

VARIABLES
    conv,        \* ConversationHandler state of the conversation ("END": none active)
    user_data,   \* context.user_data: a dict (function on the keys present)
    prompt,      \* the inline keyboard currently on screen
    last,        \* the last update dispatched: handler, callback data, outcome
    stale,       \* callbacks delivered so far in this cycle that were not on screen
    toggled,     \* the latest consecutive toggles in VISIBLE_PROBLEMS (at most two)
    image_ok,    \* survey_images/rice_growth_stage.jpg can be opened
    sink,        \* number of save_and_upload_csv_background tasks created
    rows,        \* number of rows appended to farm_surveys.csv
    queue,       \* UploadQueue._queue
    is_running,  \* UploadQueue._is_running
    worker_task, \* UploadQueue._worker_task (0: None)
    workers,     \* the _worker coroutines created so far: id -> position and task
    stopper,     \* the stop() call in flight, if any
    added,       \* number of tasks handed to add_task so far
    events,      \* log of the queue's processing events
    accepted,    \* number of photos accepted by handle_photo
    bg,          \* detached _upload_photo_background coroutines: photo -> position
    cache,       \* DriveService._folder_cache
    folders,     \* folders on the Drive backend: records [id, parent, name]
    uploads,     \* log of DriveService.upload_file invocations
    csvs,        \* detached save_and_upload_csv_background tasks: task -> position
    headers,     \* number of header rows written to farm_surveys.csv
    remote,      \* farm_surveys.csv files on the Drive backend: records [id, folder]
    wrapper,     \* a call of a function decorated with utils.retry.retry
    drive        \* DriveService._instance and the outcome of get_drive_service

surveyVars == <<conv, user_data, prompt, last, stale, toggled, image_ok, sink, rows>>
queueVars  == <<queue, is_running, worker_task, workers, stopper, added, events>>
photoVars  == <<accepted, bg, cache, folders>>
csvVars    == <<csvs, headers, remote>>
vars == <<conv, user_data, prompt, last, stale, toggled, image_ok, sink, rows,
          queue, is_running, worker_task, workers, stopper, added, events,
          accepted, bg, cache, folders, uploads, csvs, headers, remote, wrapper,
          drive>>

---------------------------------------------------------------------------
(* Bounds of the model.                                                    *)

MaxStale   == 1   \* off-screen (stale) callbacks delivered per survey cycle
MaxSurveys == 1   \* surveys completed
MaxTasks   == 3   \* tasks handed to add_task
MaxWorkers == 2   \* _worker coroutines created
MaxStops   == 1   \* stop() calls
MaxPhotos  == 2   \* photos accepted after a survey
MaxAttempts == 3  \* largest max_attempts a retry-decorated function is given
MaxBase    == 3   \* largest backoff_base a retry-decorated function is given
MaxOthers  == 1   \* surveys completed by other users

---------------------------------------------------------------------------
(* Python dicts and strings.                                               *)

Put(d, k, v) == [x \in (DOMAIN d) \cup {k} |-> IF x = k THEN v ELSE d[x]]

Get(d, k, default) == IF k \in DOMAIN d THEN d[k] ELSE default

EmptyDict == <<>>

RECURSIVE StrReplace(_, _)
\* s.replace(p + "_", ""): every non-overlapping occurrence, left to right, of
\* the words p followed by an underscore is removed.
StrReplace(s, p) ==
    IF Len(s) = 0 THEN <<>>
    ELSE IF Len(s) > Len(p) /\ SubSeq(s, 1, Len(p)) = p
         THEN StrReplace(SubSeq(s, Len(p) + 1, Len(s)), p)
         ELSE <<Head(s)>> \o StrReplace(Tail(s), p)

StartsWith(s, p) == Len(s) > Len(p) /\ SubSeq(s, 1, Len(p)) = p

Range(s) == {s[i] : i \in DOMAIN s}

\* list.remove(x): removes the first occurrence
ListRemove(l, x) ==
    LET i == CHOOSE j \in DOMAIN l : l[j] = x /\ \A k \in 1..(j - 1) : l[k] # x
    IN  SubSeq(l, 1, i - 1) \o SubSeq(l, i + 1, Len(l))

---------------------------------------------------------------------------
(* constants.py and config.py                                              *)

CALLBACK_LANG       == <<"lang">>
CALLBACK_FARM       == <<"farm">>
CALLBACK_RAINFALL   == <<"rainfall">>
CALLBACK_INTENSITY  == <<"intensity">>
CALLBACK_SOIL       == <<"soil">>
CALLBACK_GROWTH     == <<"growth">>
CALLBACK_WATER      == <<"water">>
CALLBACK_HEALTH     == <<"health">>
CALLBACK_PROBLEM    == <<"problem">>
CALLBACK_FERTILIZER == <<"fertilizer">>
CALLBACK_FERT_TYPE  == <<"fert", "type">>
CALLBACK_HERBICIDE  == <<"herbicide">>
CALLBACK_PESTICIDE  == <<"pesticide">>
CALLBACK_STRESS     == <<"stress">>

FARM_NUMBER_MIN == 1
FARM_NUMBER_MAX == 20

PROBLEM_OPTIONS ==
    << <<"none", "observed">>, <<"yellowing">>, <<"brown", "spots">>,
       <<"wilting">>, <<"lodging">>, <<"pest", "damage">>,
       <<"weed", "infestation">>, <<"uneven", "growth">>,
       <<"other", "problem">> >>
RAINFALL_INTENSITY_OPTIONS == << <<"heavy">>, <<"moderate">>, <<"low">> >>
SOIL_OPTIONS == << <<"smooth">>, <<"medium">>, <<"rough">> >>
GROWTH_STAGE_OPTIONS ==
    << <<"land", "prep">>, <<"transplanted">>, <<"tillering">>, <<"flowering">>,
       <<"ripening">>, <<"harvest">>, <<"fallow">> >>
WATER_STATUS_OPTIONS ==
    << <<"flooded">>, <<"mostly", "wet">>, <<"frequently", "dry">>, <<"drought">> >>
HEALTH_OPTIONS == << <<"excellent">>, <<"good">>, <<"fair">>, <<"poor">> >>
YES_NO_REMEMBER_OPTIONS == << <<"yes">>, <<"no">>, <<"dont", "remember">> >>
FERTILIZER_TYPE_OPTIONS == << <<"urea">>, <<"npk">>, <<"organic">>, <<"other">> >>
STRESS_EVENT_OPTIONS ==
    << <<"flood">>, <<"drought", "event">>, <<"none">>, <<"other", "stress">> >>

PROBLEM_DONE == <<"done">>
PROBLEM_NONE == <<"none", "observed">>
VALUE_NA     == <<"N/A">>

PROVINCE_CODES == [p \in {"Phnom Penh", "Takeo"} |->
                     IF p = "Phnom Penh" THEN "PNH" ELSE "TKO"]

get_province_code(province_name) ==
    IF province_name \in DOMAIN PROVINCE_CODES
    THEN PROVINCE_CODES[province_name] ELSE "UNK"

\* the conversation states of config.py, by name; END is ConversationHandler.END
States == {"LANGUAGE", "FARM_NUMBER", "RAINFALL", "RAINFALL_INTENSITY",
           "SOIL_ROUGHNESS", "GROWTH_STAGE", "WATER_STATUS", "OVERALL_HEALTH",
           "VISIBLE_PROBLEMS", "FERTILIZER", "HERBICIDE", "PESTICIDE",
           "STRESS_EVENTS", "LOCATION"}
END == "END"


---------------------------------------------------------------------------
(* Inputs: the user, the places a location can be shared from, the day.    *)

UserId   == "user7"
Username == "alice"          \* user.username, without spaces
Locations == {"in_phnom_penh", "at_sea"}
Today    == <<"2025", "12", "26">>   \* datetime.now().strftime("%Y-%m-%d")
PyNone   == "None"

\* geo_utils.get_province_from_location: the province containing the point
get_province_from_location(loc) ==
    IF loc = "in_phnom_penh" THEN "Phnom Penh" ELSE PyNone

\* str.replace(" ", "_") on the province names that occur
SpacesToUnderscores(name) ==
    IF name = "Phnom Penh" THEN "Phnom_Penh" ELSE name

\* int(s): defined on a string of digits only
IsIntString(s) == Len(s) = 1 /\ \E n \in 0..99 : ToString(n) = s[1]
PyInt(s) == CHOOSE n \in 0..99 : ToString(n) = s[1]
\* f"{n:02d}" as its two characters
Pad2(n) == <<ToString(n \div 10), ToString(n % 10)>>

\* translations.get_user_language
get_user_language(ud) == Get(ud, "language", <<"en">>)

\* handlers/survey_handlers.py: get_callback_value
get_callback_value(callback_data, prefix) == StrReplace(callback_data, prefix)

---------------------------------------------------------------------------
(* handlers/keyboard_builders.py: the callback data of each keyboard.      *)

build_option_keyboard(options, prefix) == {prefix \o options[i] : i \in DOMAIN options}

Keyboard(p) ==
    CASE p = "language"   -> {CALLBACK_LANG \o <<"en">>, CALLBACK_LANG \o <<"km">>}
      [] p = "farm"       -> {CALLBACK_FARM \o <<ToString(n)>> :
                                 n \in FARM_NUMBER_MIN..FARM_NUMBER_MAX}
      [] p = "rainfall"   -> {CALLBACK_RAINFALL \o <<"yes">>, CALLBACK_RAINFALL \o <<"no">>}
      [] p = "intensity"  -> build_option_keyboard(RAINFALL_INTENSITY_OPTIONS, CALLBACK_INTENSITY)
      [] p = "soil"       -> build_option_keyboard(SOIL_OPTIONS, CALLBACK_SOIL)
      [] p = "growth"     -> build_option_keyboard(GROWTH_STAGE_OPTIONS, CALLBACK_GROWTH)
      [] p = "water"      -> build_option_keyboard(WATER_STATUS_OPTIONS, CALLBACK_WATER)
      [] p = "health"     -> build_option_keyboard(HEALTH_OPTIONS, CALLBACK_HEALTH)
      [] p = "problems"   -> build_option_keyboard(PROBLEM_OPTIONS, CALLBACK_PROBLEM)
                                \cup {CALLBACK_PROBLEM \o PROBLEM_DONE}
      [] p = "fertilizer" -> build_option_keyboard(YES_NO_REMEMBER_OPTIONS, CALLBACK_FERTILIZER)
      [] p = "fert_type"  -> build_option_keyboard(FERTILIZER_TYPE_OPTIONS, CALLBACK_FERT_TYPE)
      [] p = "herbicide"  -> build_option_keyboard(YES_NO_REMEMBER_OPTIONS, CALLBACK_HERBICIDE)
      [] p = "pesticide"  -> build_option_keyboard(YES_NO_REMEMBER_OPTIONS, CALLBACK_PESTICIDE)
      [] p = "stress"     -> build_option_keyboard(STRESS_EVENT_OPTIONS, CALLBACK_STRESS)
      [] OTHER            -> {}

Prompts == {"language", "farm", "rainfall", "intensity", "soil", "growth", "water",
            "health", "problems", "fertilizer", "fert_type", "herbicide",
            "pesticide", "stress"}

\* The buttons the model presses: of each keyboard, these.
Pressed ==
    {CALLBACK_LANG \o <<"en">>,
     CALLBACK_FARM \o <<"3">>, CALLBACK_FARM \o <<"20">>,
     CALLBACK_RAINFALL \o <<"yes">>, CALLBACK_RAINFALL \o <<"no">>,
     CALLBACK_INTENSITY \o <<"heavy">>,
     CALLBACK_SOIL \o <<"medium">>,
     CALLBACK_GROWTH \o <<"tillering">>,
     CALLBACK_WATER \o <<"flooded">>,
     CALLBACK_HEALTH \o <<"good">>,
     CALLBACK_PROBLEM \o PROBLEM_NONE, CALLBACK_PROBLEM \o <<"yellowing">>,
     CALLBACK_PROBLEM \o <<"other", "problem">>, CALLBACK_PROBLEM \o PROBLEM_DONE,
     CALLBACK_FERTILIZER \o <<"yes">>, CALLBACK_FERTILIZER \o <<"no">>,
     CALLBACK_FERT_TYPE \o <<"urea">>,
     CALLBACK_HERBICIDE \o <<"no">>,
     CALLBACK_PESTICIDE \o <<"dont", "remember">>,
     CALLBACK_STRESS \o <<"none">>, CALLBACK_STRESS \o <<"other", "stress">>}

\* Buttons of keyboards left on screen by earlier prompts (a second tap on a
\* button just pressed, a keyboard of a cancelled survey), pressed late.
StaleButtons ==
    {CALLBACK_RAINFALL \o <<"yes">>,
     CALLBACK_FERT_TYPE \o <<"urea">>,
     CALLBACK_PROBLEM \o <<"yellowing">>,
     CALLBACK_FERTILIZER \o <<"no">>}

OnScreen(p) == Keyboard(p) \cap Pressed

---------------------------------------------------------------------------
(* handlers/survey_handlers.py.  A handler maps user_data and the update   *)
(* to the new user_data, the state it returns (RAISE: it raised, and the   *)
(* ConversationHandler keeps the state), the keyboard it leaves on screen  *)
(* and the survey dicts it hands to the record sink.                       *)

RAISE == "RAISE"

Result(ud, ret, pr) == [ud |-> ud, ret |-> ret, prompt |-> pr, csv |-> <<>>]

SetAnswer(ud, key, value) == Put(ud, "survey", Put(ud["survey"], key, value))

start(ud) ==
    Result(Put(Put(EmptyDict, "survey", EmptyDict), "survey_user_id", UserId),
           "LANGUAGE", "language")

\* matches: the message text contains the 'add_new_farm' phrase
handle_add_new_farm(ud, matches, pr) ==
    IF matches
    THEN Result(Put(Put(EmptyDict, "survey", EmptyDict), "survey_user_id", UserId),
                "LANGUAGE", "language")
    ELSE Result(ud, END, pr)

\* cancel that hands the answers given so far to the record sink
cancel_saving_partial(ud, pr) ==
    [ud |-> ud, ret |-> END, prompt |-> pr, csv |-> <<Get(ud, "survey", EmptyDict)>>]

cancel(ud, pr) == Result(ud, END, pr)

handle_language(ud, data) ==
    Result(Put(ud, "language", StrReplace(data, CALLBACK_LANG)), "LOCATION", "none")

handle_location(ud, loc) ==
    LET province     == get_province_from_location(loc)
        local_folder == IF province # PyNone THEN SpacesToUnderscores(province)
                        ELSE "Unknown_Location"
        ud1 == Put(ud, "location", loc)
        ud2 == Put(ud1, "survey_user_id", UserId)
        ud3 == Put(ud2, "date_str", Today)
        ud4 == Put(ud3, "local_folder", local_folder)
        ud5 == Put(ud4, "province", province)
    IN  Result(ud5, "FARM_NUMBER", "farm")

handle_farm_number(ud, data, pr) ==
    LET farm_num == StrReplace(data, CALLBACK_FARM)
        ud1      == SetAnswer(ud, "farm_number", farm_num)
        province == Get(ud1, "province", "Unknown")
        province_code == get_province_code(province)
        date_str == Get(ud1, "date_str", Today)
        surveyor_folder == <<province_code, Username>> \o Pad2(PyInt(farm_num))
        drive_folder_path == << <<province>>, surveyor_folder, date_str >>
    IN  IF ~IsIntString(farm_num)
        THEN Result(ud1, RAISE, pr)                 \* int(farm_num): ValueError
        ELSE Result(Put(ud1, "drive_folder", drive_folder_path), "RAINFALL", "rainfall")

\* handle_rainfall with line 229 left out: the skip branch does not write N/A
handle_rainfall_without_na(ud, data) ==
    LET rainfall == get_callback_value(data, CALLBACK_RAINFALL)
        ud1      == SetAnswer(ud, "rainfall", rainfall)
    IN  IF rainfall = <<"yes">>
        THEN Result(ud1, "RAINFALL_INTENSITY", "intensity")
        ELSE Result(ud1, "SOIL_ROUGHNESS", "soil")

handle_rainfall(ud, data) ==
    LET rainfall == get_callback_value(data, CALLBACK_RAINFALL)
        ud1      == SetAnswer(ud, "rainfall", rainfall)
    IN  IF rainfall = <<"yes">>
        THEN Result(ud1, "RAINFALL_INTENSITY", "intensity")
        ELSE Result(SetAnswer(ud1, "rainfall_intensity", VALUE_NA), "SOIL_ROUGHNESS", "soil")

handle_rainfall_intensity(ud, data) ==
    Result(SetAnswer(ud, "rainfall_intensity", get_callback_value(data, CALLBACK_INTENSITY)),
           "SOIL_ROUGHNESS", "soil")

\* img: the reference image opens; the old message is deleted before open()
handle_soil_roughness(ud, data, img) ==
    LET ud1 == SetAnswer(ud, "soil_roughness", get_callback_value(data, CALLBACK_SOIL))
    IN  IF img THEN Result(ud1, "GROWTH_STAGE", "growth")
        ELSE Result(ud1, RAISE, "none")             \* open(): FileNotFoundError

handle_growth_stage(ud, data) ==
    Result(SetAnswer(ud, "growth_stage", get_callback_value(data, CALLBACK_GROWTH)),
           "WATER_STATUS", "water")

handle_water_status(ud, data) ==
    Result(SetAnswer(ud, "water_status", get_callback_value(data, CALLBACK_WATER)),
           "OVERALL_HEALTH", "health")

\* handle_overall_health with line 324 left out: visible_problems is not initialised
handle_overall_health_without_list(ud, data) ==
    Result(SetAnswer(ud, "overall_health", get_callback_value(data, CALLBACK_HEALTH)),
           "VISIBLE_PROBLEMS", "problems")

handle_overall_health(ud, data) ==
    LET ud1 == SetAnswer(ud, "overall_health", get_callback_value(data, CALLBACK_HEALTH))
    IN  Result(SetAnswer(ud1, "visible_problems", <<>>), "VISIBLE_PROBLEMS", "problems")

\* the toggle with lines 369-370 left out: a selected problem is appended again
toggle_problem_append_only(problems, problem) ==
    IF problem = PROBLEM_NONE
    THEN <<PROBLEM_NONE>>
    ELSE LET p1 == IF PROBLEM_NONE \in Range(problems)
                   THEN ListRemove(problems, PROBLEM_NONE) ELSE problems
         IN  Append(p1, problem)

\* the toggle with lines 364-365 left out: none_observed stays in the list
\* when another problem is selected
toggle_problem_keeps_none(problems, problem) ==
    IF problem = PROBLEM_NONE
    THEN <<PROBLEM_NONE>>
    ELSE IF problem \in Range(problems) THEN ListRemove(problems, problem)
         ELSE Append(problems, problem)

\* the toggle of lines 358-373: the new visible_problems list
toggle_problem(problems, problem) ==
    IF problem = PROBLEM_NONE
    THEN <<PROBLEM_NONE>>
    ELSE LET p1 == IF PROBLEM_NONE \in Range(problems)
                   THEN ListRemove(problems, PROBLEM_NONE) ELSE problems
         IN  IF problem \in Range(p1) THEN ListRemove(p1, problem)
             ELSE Append(p1, problem)

\* handle_visible_problems that advances by itself once none_observed is selected
handle_visible_problems_advances_on_none(ud, data) ==
    LET problem  == get_callback_value(data, CALLBACK_PROBLEM)
        problems == Get(ud["survey"], "visible_problems", <<>>)
    IN  IF problem = PROBLEM_DONE
        THEN Result(ud, "FERTILIZER", "fertilizer")
        ELSE Result(SetAnswer(ud, "visible_problems", toggle_problem(problems, problem)),
                    IF problem = PROBLEM_NONE THEN "FERTILIZER" ELSE "VISIBLE_PROBLEMS",
                    IF problem = PROBLEM_NONE THEN "fertilizer" ELSE "problems")

handle_visible_problems(ud, data) ==
    LET problem  == get_callback_value(data, CALLBACK_PROBLEM)
        problems == Get(ud["survey"], "visible_problems", <<>>)
    IN  IF problem = PROBLEM_DONE
        THEN Result(ud, "FERTILIZER", "fertilizer")
        ELSE Result(SetAnswer(ud, "visible_problems", toggle_problem(problems, problem)),
                    "VISIBLE_PROBLEMS", "problems")

\* handle_fertilizer whose "yes" branch returns HERBICIDE instead of FERTILIZER
handle_fertilizer_yes_to_herbicide(ud, data) ==
    LET fertilizer == get_callback_value(data, CALLBACK_FERTILIZER)
        ud1        == SetAnswer(ud, "fertilizer", fertilizer)
    IN  IF fertilizer = <<"yes">>
        THEN Result(ud1, "HERBICIDE", "herbicide")
        ELSE Result(SetAnswer(ud1, "fertilizer_type", VALUE_NA), "HERBICIDE", "herbicide")

handle_fertilizer(ud, data) ==
    LET fertilizer == get_callback_value(data, CALLBACK_FERTILIZER)
        ud1        == SetAnswer(ud, "fertilizer", fertilizer)
    IN  IF fertilizer = <<"yes">>
        THEN Result(ud1, "FERTILIZER", "fert_type")
        ELSE Result(SetAnswer(ud1, "fertilizer_type", VALUE_NA), "HERBICIDE", "herbicide")

handle_fertilizer_type(ud, data) ==
    Result(SetAnswer(ud, "fertilizer_type", get_callback_value(data, CALLBACK_FERT_TYPE)),
           "HERBICIDE", "herbicide")

\* handle_herbicide returning FERTILIZER (line 451 with the wrong state)
handle_herbicide_to_fertilizer(ud, data) ==
    Result(SetAnswer(ud, "herbicide", get_callback_value(data, CALLBACK_HERBICIDE)),
           "FERTILIZER", "fertilizer")

handle_herbicide(ud, data) ==
    Result(SetAnswer(ud, "herbicide", get_callback_value(data, CALLBACK_HERBICIDE)),
           "PESTICIDE", "pesticide")

handle_pesticide(ud, data) ==
    Result(SetAnswer(ud, "pesticide", get_callback_value(data, CALLBACK_PESTICIDE)),
           "STRESS_EVENTS", "stress")

handle_stress_events(ud, data) ==
    LET ud1 == SetAnswer(ud, "stress_events", get_callback_value(data, CALLBACK_STRESS))
    IN  [ud |-> Put(ud1, "photo_count", 0), ret |-> END, prompt |-> "none",
         csv |-> <<ud1["survey"]>>]


---------------------------------------------------------------------------
(* main.py, lines 308-333: the ConversationHandler.  With no conversation  *)
(* active only the entry points are tried; in a state, that state's        *)
(* handlers in order and then the fallbacks.                               *)

CallbackStates == States \ {"LOCATION"}

HandlerName(state, data) ==
    CASE state = "LANGUAGE"           -> "handle_language"
      [] state = "FARM_NUMBER"        -> "handle_farm_number"
      [] state = "RAINFALL"           -> "handle_rainfall"
      [] state = "RAINFALL_INTENSITY" -> "handle_rainfall_intensity"
      [] state = "SOIL_ROUGHNESS"     -> "handle_soil_roughness"
      [] state = "GROWTH_STAGE"       -> "handle_growth_stage"
      [] state = "WATER_STATUS"       -> "handle_water_status"
      [] state = "OVERALL_HEALTH"     -> "handle_overall_health"
      [] state = "VISIBLE_PROBLEMS"   -> "handle_visible_problems"
      [] state = "FERTILIZER"         -> IF StartsWith(data, CALLBACK_FERT_TYPE)
                                         THEN "handle_fertilizer_type"
                                         ELSE "handle_fertilizer"
      [] state = "HERBICIDE"          -> "handle_herbicide"
      [] state = "PESTICIDE"          -> "handle_pesticide"
      [] state = "STRESS_EVENTS"      -> "handle_stress_events"

Handle(h, ud, data, pr, img) ==
    CASE h = "handle_language"           -> handle_language(ud, data)
      [] h = "handle_farm_number"        -> handle_farm_number(ud, data, pr)
      [] h = "handle_rainfall"           -> handle_rainfall(ud, data)
      [] h = "handle_rainfall_intensity" -> handle_rainfall_intensity(ud, data)
      [] h = "handle_soil_roughness"     -> handle_soil_roughness(ud, data, img)
      [] h = "handle_growth_stage"       -> handle_growth_stage(ud, data)
      [] h = "handle_water_status"       -> handle_water_status(ud, data)
      [] h = "handle_overall_health"     -> handle_overall_health(ud, data)
      [] h = "handle_visible_problems"   -> handle_visible_problems(ud, data)
      [] h = "handle_fertilizer"         -> handle_fertilizer(ud, data)
      [] h = "handle_fertilizer_type"    -> handle_fertilizer_type(ud, data)
      [] h = "handle_herbicide"          -> handle_herbicide(ud, data)
      [] h = "handle_pesticide"          -> handle_pesticide(ud, data)
      [] h = "handle_stress_events"      -> handle_stress_events(ud, data)

LastTwo(s) == IF Len(s) > 2 THEN SubSeq(s, Len(s) - 1, Len(s)) ELSE s

\* The conversation after a handler has run on an update.
\* a save_and_upload_csv_background task as asyncio.create_task leaves it
NewCsv == [pc |-> "exists", file_exists |-> FALSE, folder |-> 0, found |-> 0]

Dispatched(h, data, r, isStale) ==
    /\ conv'      = IF r.ret = RAISE THEN conv ELSE r.ret
    /\ user_data' = r.ud
    /\ prompt'    = r.prompt
    /\ last'      = [handler |-> h, data |-> data, raised |-> (r.ret = RAISE)]
    /\ stale'     = IF h \in {"start", "handle_add_new_farm"} /\ r.ret = "LANGUAGE" THEN 0
                    ELSE IF isStale THEN stale + 1 ELSE stale
    /\ toggled'   = IF h = "handle_visible_problems" /\ r.ret = "VISIBLE_PROBLEMS"
                    THEN LastTwo(Append(toggled,
                           [opt    |-> get_callback_value(data, CALLBACK_PROBLEM),
                            before |-> Get(user_data["survey"], "visible_problems", <<>>)]))
                    ELSE <<>>
    /\ sink'      = sink + Len(r.csv)
    /\ csvs'      = csvs \o [i \in 1..Len(r.csv) |-> NewCsv]
    /\ UNCHANGED <<image_ok, rows, headers, remote>>

\* DriveService._instance is None; the configuration (PARENT_FOLDER_ID,
\* IMPERSONATED_USER_EMAIL, the credential file) has not been read yet
NoInstance == [instance |-> FALSE, initialized |-> FALSE, service |-> FALSE,
               config |-> "unread", last |-> "none"]

\* the retry wrapper before its first call
NoCall == [pc |-> "idle", max_attempts |-> 1, backoff_base |-> 2, outcomes |-> <<>>,
           attempt |-> 0, calls |-> 0, sleeps |-> <<>>, result |-> "none",
           last_exception |-> 0]

\* message texts: the 'add_new_farm' phrase of a language, and any other text
AddNewFarmText == <<"Add", "New", "Farm">>
OtherText == <<"hello">>

\* /start, with no conversation active
Start ==
    /\ conv = END
    /\ sink < MaxSurveys
    /\ Dispatched("start", <<>>, start(user_data), FALSE)
    /\ UNCHANGED <<queueVars, photoVars, wrapper, drive, uploads>>

\* a text message, with no conversation active
AddNewFarm ==
    /\ conv = END
    /\ sink < MaxSurveys
    /\ \E matches \in BOOLEAN :
         Dispatched("handle_add_new_farm",
                    IF matches THEN AddNewFarmText ELSE OtherText,
                    handle_add_new_farm(user_data, matches, prompt), FALSE)
    /\ UNCHANGED <<queueVars, photoVars, wrapper, drive, uploads>>

\* /cancel, in any state of a conversation
Cancel ==
    /\ conv # END
    /\ Dispatched("cancel", <<>>, cancel(user_data, prompt), FALSE)
    /\ UNCHANGED <<queueVars, photoVars, wrapper, drive, uploads>>

\* a shared location, in LOCATION
Location ==
    /\ conv = "LOCATION"
    /\ \E loc \in Locations :
         Dispatched("handle_location", <<>>, handle_location(user_data, loc), FALSE)
    /\ UNCHANGED <<queueVars, photoVars, wrapper, drive, uploads>>

\* a button press: a button of the keyboard on screen (from pressed), or one of
\* an older keyboard (from old)
Callback(pressed, old) ==
    /\ conv \in CallbackStates
    /\ \E data \in (Keyboard(prompt) \cap pressed)
                     \cup (IF stale < MaxStale THEN old \ Keyboard(prompt) ELSE {}) :
         LET h == HandlerName(conv, data)
         IN  Dispatched(h, data, Handle(h, user_data, data, prompt, image_ok),
                        data \notin Keyboard(prompt))
    /\ UNCHANGED <<queueVars, photoVars, wrapper, drive, uploads>>

Press == Callback(Pressed, StaleButtons)

---------------------------------------------------------------------------

NoUpdate == [handler |-> "none", data |-> <<>>, raised |-> FALSE]

Init ==
    /\ conv = END
    /\ user_data = EmptyDict
    /\ prompt = "none"
    /\ last = NoUpdate
    /\ stale = 0
    /\ toggled = <<>>
    /\ image_ok \in BOOLEAN
    /\ sink = 0
    /\ rows = 0
    /\ queue = <<>>
    /\ is_running = FALSE
    /\ worker_task = 0
    /\ workers = <<>>
    /\ stopper = [pc |-> "idle", target |-> 0, calls |-> 0]
    /\ added = 0
    /\ events = <<>>
    /\ accepted = 0
    /\ bg = <<>>
    /\ cache = <<>>
    /\ folders = {}
    /\ uploads = <<>>
    /\ csvs = <<>>
    /\ headers = 0
    /\ remote = {}
    /\ wrapper = NoCall
    /\ drive = NoInstance

SurveyNext == Start \/ AddNewFarm \/ Cancel \/ Location \/ Press

SurveySpec == Init /\ [][SurveyNext]_vars


---------------------------------------------------------------------------
(* Properties of the survey state machine.                                 *)

Unset == <<"<unset>">>
Answers == Get(user_data, "survey", EmptyDict)
Answer(key) == Get(Answers, key, Unset)

AnswerFields == {"farm_number", "rainfall", "rainfall_intensity", "soil_roughness",
                 "growth_stage", "water_status", "overall_health", "visible_problems",
                 "fertilizer", "fertilizer_type", "herbicide", "pesticide",
                 "stress_events"}

\* the option set of each single-valued answer field
OptionSet(key) ==
    CASE key = "farm_number" -> {<<ToString(n)>> : n \in FARM_NUMBER_MIN..FARM_NUMBER_MAX}
      [] key = "rainfall"           -> {<<"yes">>, <<"no">>}
      [] key = "rainfall_intensity" -> Range(RAINFALL_INTENSITY_OPTIONS) \cup {VALUE_NA}
      [] key = "soil_roughness"     -> Range(SOIL_OPTIONS)
      [] key = "growth_stage"       -> Range(GROWTH_STAGE_OPTIONS)
      [] key = "water_status"       -> Range(WATER_STATUS_OPTIONS)
      [] key = "overall_health"     -> Range(HEALTH_OPTIONS)
      [] key = "fertilizer"         -> Range(YES_NO_REMEMBER_OPTIONS)
      [] key = "fertilizer_type"    -> Range(FERTILIZER_TYPE_OPTIONS) \cup {VALUE_NA}
      [] key = "herbicide"          -> Range(YES_NO_REMEMBER_OPTIONS)
      [] key = "pesticide"          -> Range(YES_NO_REMEMBER_OPTIONS)
      [] key = "stress_events"      -> Range(STRESS_EVENT_OPTIONS)

\* the survey has just reached COMPLETE: handle_stress_events returned END
Complete == conv = END /\ last.handler = "handle_stress_events" /\ ~last.raised

\* every update of this cycle was a button of the keyboard on screen
Canonical == stale = 0

\* C5: a survey whose events all follow the canonical order with on-screen
\* values is never stopped by a raising handler (the reference image being
\* readable), and when it reaches COMPLETE each of the thirteen answer fields
\* is set: to an option of its option set, to the N/A sentinel on the two
\* branch fields, or to a list of problem options.
C5_CompleteAllAnswered ==
    /\ (Canonical /\ image_ok) => ~last.raised
    /\ (Complete /\ Canonical) =>
          /\ AnswerFields \subseteq DOMAIN Answers
          /\ \A key \in AnswerFields \ {"visible_problems"} :
                Answers[key] \in OptionSet(key)
          /\ Range(Answers["visible_problems"]) \subseteq Range(PROBLEM_OPTIONS)
          /\ (Answers["rainfall_intensity"] = VALUE_NA) <=> (Answers["rainfall"] # <<"yes">>)
          /\ (Answers["fertilizer_type"] = VALUE_NA) <=> (Answers["fertilizer"] # <<"yes">>)

C5_Witness ==
    /\ Complete /\ Canonical
    /\ Answers["rainfall"] = <<"yes">> /\ Answers["rainfall_intensity"] = <<"heavy">>
    /\ Answers["fertilizer"] = <<"no">> /\ Answers["fertilizer_type"] = VALUE_NA
    /\ Len(Answers["visible_problems"]) = 2

\* the step is the dispatch of a callback to handler h
CallbackStep(h) == last'.handler = h /\ conv \in CallbackStates /\ HandlerName(conv, last'.data) = h

AnyCallbackStep == conv \in CallbackStates /\ last'.handler = HandlerName(conv, last'.data)

\* C6: a button event whose value is not of the keyboard of the current state
\* is rejected: conversation state and answers record are left unchanged.
C6_OutOfSetRejected ==
    [][(AnyCallbackStep /\ last'.data \notin Keyboard(prompt))
          => (conv' = conv /\ user_data' = user_data)]_vars

\* C7: no callback event makes a survey handler raise (the reference image
\* being readable).
C7_NeverRaises == image_ok => ~last.raised

\* C8: in RAINFALL the value "yes" moves to RAINFALL_INTENSITY and leaves
\* rainfall_intensity as it was; any other value writes N/A and moves to
\* SOIL_ROUGHNESS; RAINFALL_INTENSITY is entered by no other step, and is never
\* the state of a cycle whose rainfall answer is not "yes".
C8_RainfallStep ==
    CallbackStep("handle_rainfall") =>
        IF last'.data = CALLBACK_RAINFALL \o <<"yes">>
        THEN /\ conv' = "RAINFALL_INTENSITY"
             /\ Answer("rainfall_intensity")' = Answer("rainfall_intensity")
        ELSE /\ conv' = "SOIL_ROUGHNESS"
             /\ Answer("rainfall_intensity")' = VALUE_NA

C8_IntensityEntry ==
    (conv' = "RAINFALL_INTENSITY" /\ conv # "RAINFALL_INTENSITY") =>
        /\ CallbackStep("handle_rainfall")
        /\ last'.data = CALLBACK_RAINFALL \o <<"yes">>

C8_BranchSkip ==
    /\ [][C8_RainfallStep /\ C8_IntensityEntry]_vars
    /\ [](conv = "RAINFALL_INTENSITY" => Answer("rainfall") = <<"yes">>)

C8_Witness ==
    /\ last.handler = "handle_rainfall" /\ last.data = CALLBACK_RAINFALL \o <<"no">>
    /\ conv = "SOIL_ROUGHNESS" /\ Answer("rainfall_intensity") = VALUE_NA

\* C9: in FERTILIZER the value "yes" keeps the machine in FERTILIZER with the
\* fertilizer-type keyboard on screen and leaves fertilizer_type as it was; any
\* other value writes N/A and moves to HERBICIDE; HERBICIDE is entered only by
\* that step or by a fertilizer-type event that has written fertilizer_type.
C9_FertilizerStep ==
    CallbackStep("handle_fertilizer") =>
        IF last'.data = CALLBACK_FERTILIZER \o <<"yes">>
        THEN /\ conv' = "FERTILIZER" /\ prompt' = "fert_type"
             /\ Answer("fertilizer_type")' = Answer("fertilizer_type")
        ELSE /\ conv' = "HERBICIDE"
             /\ Answer("fertilizer_type")' = VALUE_NA

C9_HerbicideEntry ==
    (conv' = "HERBICIDE" /\ conv # "HERBICIDE") =>
        \/ /\ CallbackStep("handle_fertilizer_type")
           /\ CALLBACK_FERT_TYPE \o Answer("fertilizer_type")' = last'.data
        \/ /\ CallbackStep("handle_fertilizer")
           /\ last'.data # CALLBACK_FERTILIZER \o <<"yes">>
           /\ Answer("fertilizer_type")' = VALUE_NA

C9_FertilizerBranch ==
    /\ [][C9_FertilizerStep /\ C9_HerbicideEntry]_vars
    /\ [](conv = "HERBICIDE" => Answer("fertilizer_type") # Unset)
    /\ []((conv = "FERTILIZER" /\ prompt = "fert_type") => Answer("fertilizer") = <<"yes">>)

C9_Witness ==
    /\ conv = "HERBICIDE" /\ last.handler = "handle_fertilizer_type"
    /\ Answer("fertilizer") = <<"yes">> /\ Answer("fertilizer_type") = <<"urea">>

\* the last two updates toggled the same option o of prior selection S
ToggledTwice == Len(toggled) = 2 /\ toggled[1].opt = toggled[2].opt
Selection == Range(Answers["visible_problems"])

\* C10, as claimed: for every option o and prior selection S, toggling o twice
\* in a row leaves the selection set equal to S.
C10_ToggleTwiceRestores ==
    ToggledTwice => Selection = Range(toggled[1].before)

\* C10, amended: toggling o twice in a row leaves the selection set equal to
\* S when o is not none_observed and S does not contain none_observed (and
\* when o is none_observed and S is already exactly {none_observed}).
C10_ToggleTwiceRestoresOther ==
    (/\ ToggledTwice
     /\ \/ /\ toggled[1].opt # PROBLEM_NONE
           /\ PROBLEM_NONE \notin Range(toggled[1].before)
        \/ /\ toggled[1].opt = PROBLEM_NONE
           /\ toggled[1].before = <<PROBLEM_NONE>>)
    => Selection = Range(toggled[1].before)

C10_Witness ==
    /\ ToggledTwice
    /\ toggled[1].opt = <<"yellowing">>
    /\ toggled[1].before = << <<"other", "problem">> >>
    /\ Selection = { <<"other", "problem">> }


---------------------------------------------------------------------------
(* services/upload_queue.py.  Tasks are numbered in the order add_task is  *)
(* called; the shutdown sentinel None is the task numbered 0.  A _worker   *)
(* coroutine is at one of the positions                                    *)
(*   check    - the test of `while self._is_running`                       *)
(*   get      - awaiting wait_for(self._queue.get(), timeout=1.0)          *)
(*   download - _process_task, awaiting the download from Telegram         *)
(*   upload   - awaiting to_thread(drive_service.upload_file, ...)         *)
(*   notify   - awaiting on_failure / send_message                         *)
(*   cleanup  - the finally block, then task_done()                        *)
(*   done     - the coroutine has returned                                 *)

Chats == {"chat1", "chat2"}
Sentinel == [id |-> 0, chat |-> "none", cb |-> FALSE]
NoTask == Sentinel

Live(ws) == {w \in DOMAIN ws : ws[w].pc # "done"}
Processing(ws) ==
    {w \in DOMAIN ws : ws[w].pc \in {"download", "upload", "notify", "except", "cleanup"}}

\* asyncio.Queue: put appends, get takes the head
QueuePut(q, item) == Append(q, item)

\* UploadQueue.start with the `if not self._is_running` test left out
UploadQueue_start_unguarded(run, wt, ws) ==
    IF Len(ws) < MaxWorkers
    THEN [is_running |-> TRUE, worker_task |-> Len(ws) + 1,
          workers |-> Append(ws, [pc |-> "check", task |-> NoTask])]
    ELSE [is_running |-> TRUE, worker_task |-> wt, workers |-> ws]

\* UploadQueue.start: the new _is_running, _worker_task and coroutines
UploadQueue_start(run, wt, ws) ==
    IF ~run
    THEN [is_running |-> TRUE, worker_task |-> Len(ws) + 1,
          workers |-> Append(ws, [pc |-> "check", task |-> NoTask])]
    ELSE [is_running |-> run, worker_task |-> wt, workers |-> ws]

StartQueue ==
    /\ ~is_running
    /\ Len(workers) < MaxWorkers
    /\ LET s == UploadQueue_start(is_running, worker_task, workers)
       IN  /\ is_running' = s.is_running
           /\ worker_task' = s.worker_task
           /\ workers' = s.workers
    /\ UNCHANGED <<queue, stopper, added, events, surveyVars, csvVars, photoVars, wrapper, drive, uploads>>

\* UploadQueue.add_task: start(), then put; neither suspends.  The task is of
\* one of chats and has an on_failure callback or not (cbs).
AddTaskOf(chats, cbs) ==
    /\ added < MaxTasks
    /\ is_running \/ Len(workers) < MaxWorkers
    /\ \E c \in chats, cb \in cbs :
         LET s == UploadQueue_start(is_running, worker_task, workers)
         IN  /\ is_running' = s.is_running
             /\ worker_task' = s.worker_task
             /\ workers' = s.workers
             /\ queue' = QueuePut(queue, [id |-> added + 1, chat |-> c, cb |-> cb])
             /\ added' = added + 1
    /\ UNCHANGED <<stopper, events, surveyVars, csvVars, photoVars, wrapper, drive, uploads>>

AddTask == AddTaskOf(Chats, BOOLEAN)

\* add_task of a task of the first chat that has no callback
AddPlainTask == AddTaskOf({"chat1"}, {FALSE})

\* UploadQueue.stop up to `await self._worker_task`
StopBegin ==
    /\ stopper.pc = "idle"
    /\ stopper.calls < MaxStops
    /\ is_running' = FALSE
    /\ IF worker_task # 0
       THEN /\ queue' = QueuePut(queue, Sentinel)
            /\ stopper' = [pc |-> "awaiting", target |-> worker_task,
                           calls |-> stopper.calls + 1]
       ELSE /\ queue' = queue
            /\ stopper' = [stopper EXCEPT !.calls = @ + 1]
    /\ UNCHANGED <<worker_task, workers, added, events, surveyVars, csvVars, photoVars, wrapper, drive, uploads>>

\* UploadQueue.stop resumed: the awaited worker has returned
StopEnd ==
    /\ stopper.pc = "awaiting"
    /\ workers[stopper.target].pc = "done"
    /\ worker_task' = 0
    /\ stopper' = [stopper EXCEPT !.pc = "idle", !.target = 0]
    /\ UNCHANGED <<queue, is_running, workers, added, events, surveyVars, csvVars, photoVars, wrapper, drive, uploads>>

SetWorker(w, pc, task) == workers' = [workers EXCEPT ![w] = [pc |-> pc, task |-> task]]

WorkerCheck ==
    \E w \in DOMAIN workers :
      /\ workers[w].pc = "check"
      /\ SetWorker(w, IF is_running THEN "get" ELSE "done", NoTask)
      /\ UNCHANGED <<queue, is_running, worker_task, stopper, added, events,
                     surveyVars, csvVars, photoVars, wrapper, drive, uploads>>

WorkerGet ==
    \E w \in DOMAIN workers :
      /\ workers[w].pc = "get"
      /\ queue # <<>>
      /\ queue' = Tail(queue)
      /\ IF Head(queue) = Sentinel
         THEN SetWorker(w, "done", NoTask) /\ events' = events
         ELSE /\ SetWorker(w, "download", Head(queue))
              /\ events' = Append(events, <<"start", Head(queue).id>>)
      /\ UNCHANGED <<is_running, worker_task, stopper, added,
                     surveyVars, csvVars, photoVars, wrapper, drive, uploads>>

\* asyncio.TimeoutError: continue
WorkerTimeout ==
    \E w \in DOMAIN workers :
      /\ workers[w].pc = "get"
      /\ queue = <<>>
      /\ SetWorker(w, "check", NoTask)
      /\ UNCHANGED <<queue, is_running, worker_task, stopper, added, events,
                     surveyVars, csvVars, photoVars, wrapper, drive, uploads>>

\* get_file / download_to_drive and the file check of lines 122-127: the file
\* is there, or the download raised, or the file is missing after it.  A
\* missing file is reported through on_failure when the task has one, and
\* _process_task returns.
\* A download that raises takes the task to the except clause of line 158,
\* with or without a partial file left at local_path.
WorkerDownload ==
    \E w \in DOMAIN workers, out \in {"ok", "raised", "partial", "missing"} :
      /\ workers[w].pc = "download"
      /\ SetWorker(w, CASE out = "ok" -> "upload"
                        [] out \in {"raised", "partial"} -> "except"
                        [] out = "missing" ->
                             IF workers[w].task.cb THEN "notify" ELSE "cleanup",
                   workers[w].task)
      /\ events' =
           LET id == workers[w].task.id
           IN  CASE out = "ok" -> Append(events, <<"staged", id>>)
                 [] out = "partial" -> events \o << <<"staged", id>>, <<"fail", id>> >>
                 [] OTHER -> Append(events, <<"fail", id>>)
      /\ UNCHANGED <<queue, is_running, worker_task, stopper, added,
                     surveyVars, csvVars, photoVars, wrapper, drive, uploads>>

\* drive_service.upload_file is invoked; its result is a success or a failure
WorkerUpload ==
    \E w \in DOMAIN workers, success \in BOOLEAN :
      /\ workers[w].pc = "upload"
      /\ uploads' = Append(uploads, [by |-> "worker", id |-> workers[w].task.id,
                                     chat |-> workers[w].task.chat])
      /\ events' = IF success THEN events
                   ELSE Append(events, <<"fail", workers[w].task.id>>)
      /\ SetWorker(w, IF success THEN "cleanup" ELSE "notify", workers[w].task)
      /\ UNCHANGED <<queue, is_running, worker_task, stopper, added,
                     surveyVars, csvVars, photoVars, wrapper, drive>>

\* what tells the user of the failure: the task's on_failure, else send_message
Notice(task) == <<IF task.cb THEN "on_failure" ELSE "send_message", task.id>>

\* a failure that escapes _process_task and _worker: the coroutine ends
WorkerNotify_stops ==
    \E w \in DOMAIN workers :
      /\ workers[w].pc \in {"notify", "except"}
      /\ events' = Append(events, Notice(workers[w].task))
      /\ SetWorker(w, "done", NoTask)
      /\ UNCHANGED <<queue, is_running, worker_task, stopper, added,
                     surveyVars, csvVars, photoVars, wrapper, drive, uploads>>

\* the task has failed: on_failure / send_message, inside _process_task, in
\* the branches of lines 127 and 147 ("notify") or in the except clause
WorkerNotify ==
    \E w \in DOMAIN workers :
      /\ workers[w].pc \in {"notify", "except"}
      /\ events' = Append(events, Notice(workers[w].task))
      /\ SetWorker(w, "cleanup", workers[w].task)
      /\ UNCHANGED <<queue, is_running, worker_task, stopper, added,
                     surveyVars, csvVars, photoVars, wrapper, drive, uploads>>

\* on_failure / send_message raises: outside the except clause the exception
\* is caught by it and the clause notifies in its turn; inside, lines 168-169
\* drop it
WorkerNotifyRaises ==
    \E w \in DOMAIN workers :
      /\ workers[w].pc \in {"notify", "except"}
      /\ events' = Append(events, <<"notice_raised", workers[w].task.id>>)
      /\ SetWorker(w, IF workers[w].pc = "notify" THEN "except" ELSE "cleanup",
                   workers[w].task)
      /\ UNCHANGED <<queue, is_running, worker_task, stopper, added,
                     surveyVars, csvVars, photoVars, wrapper, drive, uploads>>

\* the file at the local_path of task id exists
StagedFile(ev, id) ==
    /\ \E i \in DOMAIN ev : ev[i] = <<"staged", id>>
    /\ \A i \in DOMAIN ev : ev[i] # <<"removed", id>>

\* the finally block removing the file only after a successful upload
process_task_finally_on_success(ev, id) ==
    IF StagedFile(ev, id) /\ \A i \in DOMAIN ev : ev[i] # <<"fail", id>>
    THEN ev \o << <<"removed", id>>, <<"end", id>> >>
    ELSE Append(ev, <<"end", id>>)

\* the finally block: os.remove(task.local_path) if the file exists
process_task_finally(ev, id) ==
    IF StagedFile(ev, id)
    THEN ev \o << <<"removed", id>>, <<"end", id>> >>
    ELSE Append(ev, <<"end", id>>)

\* the finally block; back in _worker, task_done() and the next iteration
WorkerCleanup ==
    \E w \in DOMAIN workers :
      /\ workers[w].pc = "cleanup"
      /\ events' = process_task_finally(events, workers[w].task.id)
      /\ SetWorker(w, "check", NoTask)
      /\ UNCHANGED <<queue, is_running, worker_task, stopper, added,
                     surveyVars, csvVars, photoVars, wrapper, drive, uploads>>

WorkerNext ==
    \/ WorkerCheck \/ WorkerGet \/ WorkerTimeout \/ WorkerDownload
    \/ WorkerUpload \/ WorkerNotify \/ WorkerCleanup

\* add_task, start and the worker; stop() is not called
QueueRunNext == AddTask \/ StartQueue \/ WorkerNext

QueueRunSpec == Init /\ [][QueueRunNext]_vars

\* the same with stop(), for tasks of one chat
QueueNext == AddPlainTask \/ StartQueue \/ StopBegin \/ StopEnd \/ WorkerNext

QueueSpec == Init /\ [][QueueNext]_vars

\* add_task, start and the worker, with notifications that may raise
QueueFaultNext == QueueRunNext \/ WorkerNotifyRaises

QueueFaultSpec == Init /\ [][QueueFaultNext]_vars

---------------------------------------------------------------------------
(* Properties of the upload queue.                                         *)

\* C1: upload_file is invoked for the tasks in the order they were added (the
\* order of their numbers), and a task's processing starts only after every
\* task added before it has been processed to the end; never are two tasks in
\* processing at once.
C1_UploadOrder ==
    /\ \A i, j \in DOMAIN uploads : i < j => uploads[i].id < uploads[j].id
    /\ \A i \in DOMAIN events :
          events[i][1] = "start" =>
             \A t \in 1..(events[i][2] - 1) :
                \E j \in 1..(i - 1) : events[j] = <<"end", t>>
    /\ Cardinality(Processing(workers)) <= 1

C1_Witness ==
    /\ Len(uploads) = 3
    /\ uploads[1].chat # uploads[2].chat
    /\ \E i \in DOMAIN events : events[i] = <<"end", 3>>
    /\ \E i \in DOMAIN events : events[i] = <<"end", 1>>

\* C2: at most one _worker coroutine is live.
C2_OneWorker == Cardinality(Live(workers)) <= 1


---------------------------------------------------------------------------
(* services/drive_service.py, lines 40-77 and 284-286: the singleton.      *)

\* DriveService(): __new__, then __init__ with _init_service; valid tells
\* whether the three configuration checks of _init_service pass
get_drive_service(d, valid) ==
    LET d1 == IF ~d.instance
              THEN [d EXCEPT !.instance = TRUE, !.initialized = FALSE]
              ELSE d
    IN  IF d1.initialized THEN [d1 EXCEPT !.last = "returned"]
        ELSE IF valid
        THEN [d1 EXCEPT !.initialized = TRUE, !.service = TRUE, !.last = "returned"]
        ELSE [d1 EXCEPT !.initialized = TRUE, !.service = FALSE, !.last = "raised"]

\* a call of get_drive_service; the configuration is what the first call found
GetDriveService ==
    /\ \E valid \in IF drive.config = "unread" THEN BOOLEAN
                    ELSE {drive.config = "valid"} :
         drive' = [get_drive_service(drive, valid) EXCEPT
                     !.config = IF valid THEN "valid" ELSE "invalid"]
    /\ UNCHANGED <<surveyVars, csvVars, queueVars, photoVars, uploads, wrapper>>

---------------------------------------------------------------------------
(* utils/retry.py: the wrapper that the retry decorator puts around a      *)
(* function (sync_wrapper and async_wrapper have the same loop).  A call   *)
(* is given max_attempts, backoff_base and, per invocation of the wrapped  *)
(* function, what that invocation does:                                    *)
(*   "ok"     - it returns                                                 *)
(*   "listed" - it raises an exception of a type in `exceptions`           *)
(*   "other"  - it raises an exception of another type                     *)
(* An exception is identified by the attempt that raised it.               *)

RECURSIVE Pow(_, _)
Pow(b, n) == IF n = 0 THEN 1 ELSE b * Pow(b, n - 1)

\* the handler of `exceptions` taking every exception
retry_caught_any(outcome) == outcome # "ok"

\* `except exceptions as e`
retry_caught(outcome) == outcome = "listed"

\* a sleep after every failed attempt, the last one too
retry_sleeps_always(attempt, max_attempts) == attempt <= max_attempts

\* `if attempt < max_attempts`: a sleep and another attempt follow
retry_sleeps(attempt, max_attempts) == attempt < max_attempts

\* the delay the docstring gives: base^attempt
retry_delay_docstring(backoff_base, attempt) == Pow(backoff_base, attempt)

\* `delay = backoff_base ** (attempt - 1)`
retry_delay(backoff_base, attempt) == Pow(backoff_base, attempt - 1)

\* the wrapped function is called through the wrapper
RetryCall ==
    /\ wrapper.pc \in {"idle", "done"}
    /\ \E m \in 1..MaxAttempts, b \in 2..MaxBase :
         \E o \in [1..m -> {"ok", "listed", "other"}] :
           wrapper' = [pc |-> "call", max_attempts |-> m, backoff_base |-> b,
                       outcomes |-> o, attempt |-> 1, calls |-> 0, sleeps |-> <<>>,
                       result |-> "none", last_exception |-> 0]
    /\ UNCHANGED <<surveyVars, csvVars, queueVars, photoVars, uploads, drive>>

\* one pass of the loop body up to the sleep: func is invoked
RetryAttempt ==
    /\ wrapper.pc = "call"
    /\ LET a == wrapper.attempt
           o == wrapper.outcomes[a]
           w == [wrapper EXCEPT !.calls = @ + 1]
       IN  wrapper' =
             IF o = "ok" THEN [w EXCEPT !.pc = "done", !.result = "returned"]
             ELSE IF retry_caught(o)
             THEN IF retry_sleeps(a, wrapper.max_attempts)
                  THEN [w EXCEPT !.pc = "sleep", !.last_exception = a]
                  ELSE [w EXCEPT !.pc = "done", !.result = "raised",
                                 !.last_exception = a]
             ELSE [w EXCEPT !.pc = "done", !.result = "raised", !.last_exception = a]
    /\ UNCHANGED <<surveyVars, csvVars, queueVars, photoVars, uploads, drive>>

\* time.sleep(delay) / await asyncio.sleep(delay), then the next pass, or
\* `raise last_exception` when the loop is over
RetrySleep ==
    /\ wrapper.pc = "sleep"
    /\ LET w == [wrapper EXCEPT
                   !.sleeps = Append(@, retry_delay(wrapper.backoff_base,
                                                    wrapper.attempt))]
       IN  wrapper' = IF wrapper.attempt < wrapper.max_attempts
                      THEN [w EXCEPT !.pc = "call", !.attempt = @ + 1]
                      ELSE [w EXCEPT !.pc = "done", !.result = "raised"]
    /\ UNCHANGED <<surveyVars, csvVars, queueVars, photoVars, uploads, drive>>

RetryNext == RetryCall \/ RetryAttempt \/ RetrySleep

RetrySpec == Init /\ [][RetryNext]_vars

\* the call was given k listed exceptions and then a return
FailsThenReturns(w, k) ==
    /\ w.pc # "idle"
    /\ k < w.max_attempts
    /\ \A i \in 1..k : w.outcomes[i] = "listed"
    /\ w.outcomes[k + 1] = "ok"

AlwaysFails(w) ==
    /\ w.pc # "idle"
    /\ \A i \in 1..w.max_attempts : w.outcomes[i] = "listed"

FailsThenOther(w, k) ==
    /\ w.pc # "idle"
    /\ k < w.max_attempts
    /\ \A i \in 1..k : w.outcomes[i] = "listed"
    /\ w.outcomes[k + 1] = "other"

\* C24: an exception of a type that is not listed leaves the wrapper on the
\* attempt that raised it: the function is not invoked again and nothing is
\* slept after it.
C24_OtherPropagates ==
    \A k \in 0..(MaxAttempts - 1) :
       (FailsThenOther(wrapper, k) /\ wrapper.calls >= k + 1)
          => /\ wrapper.pc = "done"
             /\ wrapper.calls = k + 1
             /\ wrapper.result = "raised"
             /\ wrapper.last_exception = k + 1
             /\ Len(wrapper.sleeps) = k

C24_Witness ==
    /\ wrapper.pc = "done"
    /\ FailsThenOther(wrapper, 1)
    /\ wrapper.max_attempts = 3
    /\ wrapper.calls = 2


---------------------------------------------------------------------------
(* handlers/photo_handlers.py and services/drive_service.py.               *)
(* handle_photo of handlers/photo_handlers.py accepts a photo and creates a *)
(* detached _upload_photo_background coroutine for it.  (main.py registers *)
(* a handle_photo of its own, which awaits the upload before it returns;   *)
(* neither of the two uses the upload queue.)  The coroutine is at one of  *)
(*   download - awaiting get_file / download_to_drive                      *)
(*   lookup   - upload_file, in a pool thread: _get_or_create_folder of    *)
(*              the next path segment reads the folder cache               *)
(*   list     - the files().list request for the segment                   *)
(*   create   - the files().create request of the folder                   *)
(*   backoff  - the sleep of the retry wrapper of _get_or_create_folder    *)
(*   file     - the files().create request of the photo                    *)
(*   notify   - awaiting send_message of the failure notice                *)
(*   cleanup  - the finally block                                          *)
(*   done                                                                  *)
(* and records the attempt of the retry wrapper it is in, the folder       *)
(* requests (reqs) and file-creation requests (creates) it has issued, the *)
(* outcome of its latest request (out) and the result of upload_file.      *)

\* DriveService._parent_folder_id: the id of the configured root folder
parent_folder_id == 0

\* handle_photo with line 49 left out: the new count is not stored
handle_photo_count_unsaved(ud, sender) ==
    LET drive_folder   == Get(ud, "drive_folder", <<>>)
        survey_user_id == Get(ud, "survey_user_id", sender)
        next_photo_num == Get(ud, "photo_count", 0) + 1
        ud1 == Put(ud, "photo_count", next_photo_num - 1)
        ud2 == IF next_photo_num = 1 THEN Put(ud1, "photo_instruction_msg_id", "msg")
               ELSE ud1
    IN  IF survey_user_id # sender
        THEN [ud |-> ud, accepted |-> FALSE, reply |-> "photo_own_survey_only"]
        ELSE IF drive_folder = <<>>
        THEN [ud |-> ud, accepted |-> FALSE, reply |-> "complete_survey_first"]
        ELSE [ud |-> ud2, accepted |-> TRUE,
              reply |-> IF next_photo_num = 1 THEN "continue_or_new" ELSE "none"]

\* handle_photo with lines 26-28 left out: the sender is not compared
handle_photo_any_sender(ud, sender) ==
    LET drive_folder   == Get(ud, "drive_folder", <<>>)
        survey_user_id == Get(ud, "survey_user_id", sender)
        next_photo_num == Get(ud, "photo_count", 0) + 1
        ud1 == Put(ud, "photo_count", next_photo_num)
        ud2 == IF next_photo_num = 1 THEN Put(ud1, "photo_instruction_msg_id", "msg")
               ELSE ud1
    IN  IF FALSE
        THEN [ud |-> ud, accepted |-> FALSE, reply |-> "photo_own_survey_only"]
        ELSE IF drive_folder = <<>>
        THEN [ud |-> ud, accepted |-> FALSE, reply |-> "complete_survey_first"]
        ELSE [ud |-> ud2, accepted |-> TRUE,
              reply |-> IF next_photo_num = 1 THEN "continue_or_new" ELSE "none"]

\* handle_photo: the new user_data and whether the photo was accepted
handle_photo(ud, sender) ==
    LET drive_folder   == Get(ud, "drive_folder", <<>>)
        survey_user_id == Get(ud, "survey_user_id", sender)
        next_photo_num == Get(ud, "photo_count", 0) + 1
        ud1 == Put(ud, "photo_count", next_photo_num)
        ud2 == IF next_photo_num = 1 THEN Put(ud1, "photo_instruction_msg_id", "msg")
               ELSE ud1
    IN  IF survey_user_id # sender
        THEN [ud |-> ud, accepted |-> FALSE, reply |-> "photo_own_survey_only"]
        ELSE IF drive_folder = <<>>
        THEN [ud |-> ud, accepted |-> FALSE, reply |-> "complete_survey_first"]
        ELSE [ud |-> ud2, accepted |-> TRUE,
              reply |-> IF next_photo_num = 1 THEN "continue_or_new" ELSE "none"]

\* a photo message of sender, in any state of the conversation or outside
\* one, handled with the user_data of the session
PhotoBy(sender) ==
    /\ accepted < MaxPhotos
    /\ LET r == handle_photo(user_data, sender)
       IN  /\ user_data' = r.ud
           /\ accepted' = IF r.accepted THEN accepted + 1 ELSE accepted
           /\ bg' = IF r.accepted
                    THEN Append(bg, [pc |-> "download", num |-> r.ud["photo_count"],
                                     folder |-> r.ud["drive_folder"], seg |-> 1,
                                     parent |-> parent_folder_id, attempt |-> 1,
                                     reqs |-> 0, creates |-> 0, out |-> "none",
                                     result |-> "none"])
                    ELSE bg
           /\ last' = [handler |-> "handle_photo", data |-> <<sender, r.reply>>,
                        raised |-> FALSE]
    /\ UNCHANGED <<conv, prompt, stale, toggled, image_ok, sink, rows, cache, folders,
                   queueVars, uploads, csvVars, wrapper, drive>>

\* a photo message of the user of the session
Photo == PhotoBy(UserId)

\* a photo message of a user who is not the survey_user_id of the session
OtherUserId == "user8"
ForeignPhoto == PhotoBy(OtherUserId)

SetBg(i, rec) == bg' = [bg EXCEPT ![i] = rec]

\* create_folder_path: the segment is resolved to id; on to the next segment
\* (a new call of the wrapped _get_or_create_folder), or to the file
Resolved(b, id) ==
    IF b.seg = Len(b.folder)
    THEN [b EXCEPT !.pc = "file", !.parent = id, !.attempt = 1]
    ELSE [b EXCEPT !.pc = "lookup", !.seg = @ + 1, !.parent = id, !.attempt = 1]

CacheKey(b) == <<b.parent, b.folder[b.seg]>>

\* _get_or_create_folder leaving the cache as it is
CacheWrite_skipped(c, b, id) == c

\* self._folder_cache[cache_key] = folder_id
CacheWrite(c, b, id) == Put(c, CacheKey(b), id)

\* the kinds of backend error: "transient" (HttpError 5xx or 429, a connection
\* error, a timeout) and "permanent" (HttpError 4xx: authentication, malformed
\* request).  RETRYABLE_EXCEPTIONS lists HttpError whatever its status.
RETRYABLE_EXCEPTIONS == {"transient", "permanent"}

\* @retry(max_attempts=3, ...) of _get_or_create_folder
folder_max_attempts == 3

\* upload_file letting the exception out
upload_file_reraises(b) == [b EXCEPT !.pc = "notify", !.result = "raised"]

\* upload_file, lines 203-208: an exception becomes a failure result
upload_file_except(b) == [b EXCEPT !.pc = "notify", !.result = "failure"]

\* the download; then upload_file is invoked in a thread and checks that the
\* file is there (lines 174-177): it may be gone by then
BgDownload ==
    \E i \in DOMAIN bg, d \in {"ok", "failed", "gone"} :
      /\ bg[i].pc = "download"
      /\ SetBg(i, CASE d = "ok" -> [bg[i] EXCEPT !.pc = "lookup"]
                    [] d = "failed" -> [bg[i] EXCEPT !.pc = "notify"]
                    [] d = "gone" -> [bg[i] EXCEPT !.pc = "notify", !.out = "gone",
                                                 !.result = "failure"])
      /\ uploads' = IF d = "failed" THEN uploads
                    ELSE Append(uploads, [by |-> "background", id |-> bg[i].num,
                                          chat |-> "chat1"])
      /\ UNCHANGED <<surveyVars, csvVars, queueVars, wrapper, drive, accepted, cache, folders>>

\* _get_or_create_folder, lines 97-99
BgLookup ==
    \E i \in DOMAIN bg :
      /\ bg[i].pc = "lookup"
      /\ IF CacheKey(bg[i]) \in DOMAIN cache
         THEN SetBg(i, Resolved(bg[i], cache[CacheKey(bg[i])]))
         ELSE SetBg(i, [bg[i] EXCEPT !.pc = "list"])
      /\ UNCHANGED <<surveyVars, csvVars, queueVars, wrapper, drive, accepted, cache, folders, uploads>>

Matching(b) == {f \in folders : f.parent = b.parent /\ f.name = b.folder[b.seg]}

\* the request of b has been answered
Answered(b) == [b EXCEPT !.reqs = @ + 1, !.out = "ok"]

\* _get_or_create_folder, lines 102-118
BgList ==
    \E i \in DOMAIN bg :
      /\ bg[i].pc = "list"
      /\ IF Matching(bg[i]) # {}
         THEN \E f \in Matching(bg[i]) :
                /\ cache' = CacheWrite(cache, bg[i], f.id)
                /\ SetBg(i, Resolved(Answered(bg[i]), f.id))
         ELSE /\ cache' = cache
              /\ SetBg(i, [Answered(bg[i]) EXCEPT !.pc = "create"])
      /\ UNCHANGED <<surveyVars, csvVars, queueVars, wrapper, drive, accepted, folders, uploads>>

\* _get_or_create_folder, lines 120-135
BgCreate ==
    \E i \in DOMAIN bg :
      /\ bg[i].pc = "create"
      /\ LET id == Cardinality(folders) + 1
         IN  /\ folders' = folders \cup {[id |-> id, parent |-> bg[i].parent,
                                          name |-> bg[i].folder[bg[i].seg]]}
             /\ cache' = CacheWrite(cache, bg[i], id)
             /\ SetBg(i, Resolved(Answered(bg[i]), id))
      /\ UNCHANGED <<surveyVars, csvVars, queueVars, wrapper, drive, accepted, uploads>>

\* _get_or_create_folder, lines 137-139, under its retry wrapper: the list or
\* the create request raises.  The wrapper sleeps and calls again, or raises;
\* the exception then passes create_folder_path and ends in upload_file.
BgFault ==
    \E i \in DOMAIN bg, kind \in {"transient", "permanent"} :
      /\ bg[i].pc \in {"list", "create"}
      /\ LET b == [bg[i] EXCEPT !.reqs = @ + 1, !.out = kind]
             o == IF kind \in RETRYABLE_EXCEPTIONS THEN "listed" ELSE "other"
         IN  IF retry_caught(o) /\ retry_sleeps(b.attempt, folder_max_attempts)
             THEN SetBg(i, [b EXCEPT !.pc = "backoff"])
             ELSE SetBg(i, upload_file_except(b))
      /\ UNCHANGED <<surveyVars, csvVars, queueVars, wrapper, drive, accepted, cache, folders, uploads>>

\* time.sleep(delay) of the wrapper, then _get_or_create_folder again
BgBackoff ==
    \E i \in DOMAIN bg :
      /\ bg[i].pc = "backoff"
      /\ SetBg(i, [bg[i] EXCEPT !.pc = "lookup", !.attempt = @ + 1])
      /\ UNCHANGED <<surveyVars, csvVars, queueVars, wrapper, drive, accepted, cache, folders, uploads>>

\* upload_file, lines 182-208: the photo is created, or the request raises
BgFile ==
    \E i \in DOMAIN bg, out \in {"ok", "transient", "permanent"} :
      /\ bg[i].pc = "file"
      /\ LET b == [bg[i] EXCEPT !.creates = @ + 1, !.out = out]
         IN  SetBg(i, IF out = "ok"
                      THEN [b EXCEPT !.pc = "cleanup", !.result = "success"]
                      ELSE upload_file_except(b))
      /\ UNCHANGED <<surveyVars, csvVars, queueVars, wrapper, drive, accepted, cache, folders, uploads>>

BgNotify ==
    \E i \in DOMAIN bg :
      /\ bg[i].pc = "notify"
      /\ SetBg(i, [bg[i] EXCEPT !.pc = "cleanup"])
      /\ UNCHANGED <<surveyVars, csvVars, queueVars, wrapper, drive, accepted, cache, folders, uploads>>

BgCleanup ==
    \E i \in DOMAIN bg :
      /\ bg[i].pc = "cleanup"
      /\ SetBg(i, [bg[i] EXCEPT !.pc = "done"])
      /\ UNCHANGED <<surveyVars, csvVars, queueVars, wrapper, drive, accepted, cache, folders, uploads>>

\* one survey along a single line of answers, with photos
PhotoPressed ==
    {CALLBACK_LANG \o <<"en">>, CALLBACK_FARM \o <<"3">>,
     CALLBACK_RAINFALL \o <<"no">>, CALLBACK_SOIL \o <<"medium">>,
     CALLBACK_GROWTH \o <<"tillering">>, CALLBACK_WATER \o <<"flooded">>,
     CALLBACK_HEALTH \o <<"good">>, CALLBACK_PROBLEM \o PROBLEM_DONE,
     CALLBACK_FERTILIZER \o <<"no">>, CALLBACK_HERBICIDE \o <<"no">>,
     CALLBACK_PESTICIDE \o <<"dont", "remember">>, CALLBACK_STRESS \o <<"none">>}

PressInLine == Callback(PhotoPressed, {})

PhotoNext ==
    \/ Start \/ Location \/ PressInLine \/ Photo
    \/ BgDownload \/ BgLookup \/ BgList \/ BgCreate \/ BgFile \/ BgNotify \/ BgCleanup

PhotoSpec == Init /\ [][PhotoNext]_vars

\* a photo sent when the uploads of the photos before it have ended
PhotoAfter ==
    /\ \A i \in DOMAIN bg : bg[i].pc = "done"
    /\ Photo

\* the answers up to the farm number, which sets the Drive folder of the photos
PressToFarm == Callback({CALLBACK_LANG \o <<"en">>, CALLBACK_FARM \o <<"3">>}, {})

\* photos in sequence, on a backend whose requests may fail
DriveNext ==
    \/ Start \/ Location \/ PressToFarm \/ PhotoAfter
    \/ BgDownload \/ BgLookup \/ BgList \/ BgCreate \/ BgFault \/ BgBackoff
    \/ BgFile \/ BgNotify \/ BgCleanup

DriveSpec == Init /\ [][DriveNext]_vars

---------------------------------------------------------------------------
(* The session of a user: the conversation, text messages sent while it is *)
(* active, photos, and the detached task that writes the survey log.       *)

\* A text message while a conversation is active.  allow_reentry is not set,
\* so the entry points are not tried; no state has a handler for text and the
\* only fallback is /cancel: the update is handled by nothing.
TextInConversation ==
    /\ conv # END
    /\ \E text \in {AddNewFarmText, OtherText} :
         last' = [handler |-> "none", data |-> text, raised |-> FALSE]
    /\ UNCHANGED <<conv, user_data, prompt, stale, toggled, image_ok, sink, rows,
                   csvVars, queueVars, photoVars, wrapper, drive, uploads>>

SetCsv(i, rec) == csvs' = [csvs EXCEPT ![i] = rec]

\* save_survey_to_csv, in a pool thread: file_exists = csv_file.exists()
CsvExists ==
    \E i \in DOMAIN csvs :
      /\ csvs[i].pc = "exists"
      /\ SetCsv(i, [csvs[i] EXCEPT !.pc = "write",
                                   !.file_exists = (headers + rows > 0)])
      /\ UNCHANGED <<conv, user_data, prompt, last, stale, toggled, image_ok, sink,
                     rows, headers, remote, queueVars, photoVars, wrapper, drive, uploads>>

\* save_survey_to_csv: the file is opened for appending; the header is written
\* if the file was not there at the check, then the row
CsvSave ==
    \E i \in DOMAIN csvs :
      /\ csvs[i].pc = "write"
      /\ headers' = IF csvs[i].file_exists THEN headers ELSE headers + 1
      /\ rows' = rows + 1
      /\ SetCsv(i, [csvs[i] EXCEPT !.pc = "lookup"])
      /\ UNCHANGED <<conv, user_data, prompt, last, stale, toggled, image_ok, sink,
                     remote, queueVars, photoVars, wrapper, drive, uploads>>

\* upload_csv, in a pool thread: _get_or_create_folder('Surveys', root), one
\* step for the cache lookup, one for the list request, one for the create
CsvFolder ==
    \E i \in DOMAIN csvs :
      LET key == <<parent_folder_id, "Surveys">>
          there == {f \in folders : f.parent = parent_folder_id /\ f.name = "Surveys"}
          id == Cardinality(folders) + 1
      IN  /\ csvs[i].pc \in {"lookup", "list", "create"}
          /\ CASE csvs[i].pc = "lookup" ->
                    /\ SetCsv(i, IF key \in DOMAIN cache
                                 THEN [csvs[i] EXCEPT !.pc = "find", !.folder = cache[key]]
                                 ELSE [csvs[i] EXCEPT !.pc = "list"])
                    /\ UNCHANGED <<cache, folders>>
               [] csvs[i].pc = "list" ->
                    IF there # {}
                    THEN \E f \in there :
                           /\ cache' = Put(cache, key, f.id)
                           /\ SetCsv(i, [csvs[i] EXCEPT !.pc = "find", !.folder = f.id])
                           /\ UNCHANGED folders
                    ELSE /\ SetCsv(i, [csvs[i] EXCEPT !.pc = "create"])
                         /\ UNCHANGED <<cache, folders>>
               [] csvs[i].pc = "create" ->
                    /\ folders' = folders \cup {[id |-> id, parent |-> parent_folder_id,
                                                 name |-> "Surveys"]}
                    /\ cache' = Put(cache, key, id)
                    /\ SetCsv(i, [csvs[i] EXCEPT !.pc = "find", !.folder = id])
          /\ UNCHANGED <<conv, user_data, prompt, last, stale, toggled, image_ok, sink,
                         rows, headers, remote, queueVars, accepted, bg, wrapper, drive,
                         uploads>>

\* upload_csv, lines 228-239: the list request for the file in the folder;
\* found is existing_files[0], or 0 when the list is empty
CsvFind ==
    \E i \in DOMAIN csvs :
      LET existing_files == {f \in remote : f.folder = csvs[i].folder}
      IN  /\ csvs[i].pc = "find"
          /\ IF existing_files = {}
             THEN SetCsv(i, [csvs[i] EXCEPT !.pc = "put", !.found = 0])
             ELSE \E f \in existing_files :
                    SetCsv(i, [csvs[i] EXCEPT !.pc = "put", !.found = f.id])
          /\ UNCHANGED <<conv, user_data, prompt, last, stale, toggled, image_ok, sink,
                         rows, headers, remote, queueVars, photoVars, wrapper, drive, uploads>>

\* upload_csv, lines 241-264: files().update of the file found, or
\* files().create of a new file
CsvPut ==
    \E i \in DOMAIN csvs :
      /\ csvs[i].pc = "put"
      /\ remote' = IF csvs[i].found # 0 THEN remote
                   ELSE remote \cup {[id |-> Cardinality(remote) + 1,
                                      folder |-> csvs[i].folder]}
      /\ SetCsv(i, [csvs[i] EXCEPT !.pc = "done"])
      /\ UNCHANGED <<conv, user_data, prompt, last, stale, toggled, image_ok, sink,
                     rows, headers, queueVars, photoVars, wrapper, drive, uploads>>

\* handle_stress_events for another user: their survey is complete and its
\* sink task is created
OtherSurvey ==
    /\ Len(csvs) < MaxSurveys + MaxOthers
    /\ csvs' = Append(csvs, NewCsv)
    /\ UNCHANGED <<conv, user_data, prompt, last, stale, toggled, image_ok, sink,
                   rows, headers, remote, queueVars, photoVars, wrapper, drive, uploads>>

\* the surveys of several users and their sink tasks
CsvNext ==
    \/ Start \/ Location \/ PressInLine \/ OtherSurvey
    \/ CsvExists \/ CsvSave \/ CsvFolder \/ CsvFind \/ CsvPut

CsvSpec == Init /\ [][CsvNext]_vars

PressInSession == Callback(PhotoPressed, StaleButtons)

SessionNext ==
    \/ Start \/ AddNewFarm \/ Cancel \/ Location \/ PressInSession
    \/ TextInConversation \/ Photo \/ CsvExists \/ CsvSave

SessionSpec == Init /\ [][SessionNext]_vars

\* the conversation and the survey log
SurveySinkNext ==
    \/ Start \/ AddNewFarm \/ Cancel \/ Location \/ PressInSession
    \/ CsvExists \/ CsvSave

SurveySinkSpec == Init /\ [][SurveySinkNext]_vars

\* the conversation and the photos
SurveyPhotoNext ==
    \/ Start \/ AddNewFarm \/ Cancel \/ Location \/ PressInSession \/ Photo

SurveyPhotoSpec == Init /\ [][SurveyPhotoNext]_vars

---------------------------------------------------------------------------
(* Properties of the photo path.                                           *)

\* C3: the uploads of photos to the same path are serialized, so that each
\* (parent id, folder name) is created at most once on the backend.
C3_NoDuplicateFolder ==
    \A f, g \in folders : (f.parent = g.parent /\ f.name = g.name) => f = g

\* C4: each accepted photo has added exactly one task to the upload queue, and
\* every invocation of upload_file is made by the queue's worker.
C4_OneTaskPerPhoto ==
    /\ accepted = added
    /\ \A i \in DOMAIN uploads : uploads[i].by = "worker"


---------------------------------------------------------------------------
(* Further properties of the survey state machine.                         *)

\* context.user_data['survey'].get('visible_problems', []) in a session
ProblemsOf(ud) == Get(Get(ud, "survey", EmptyDict), "visible_problems", <<>>)

\* the step is handle_visible_problems run on a problem_<option> button
ProblemStep(problem) ==
    /\ conv = "VISIBLE_PROBLEMS"
    /\ last'.handler = "handle_visible_problems"
    /\ get_callback_value(last'.data, CALLBACK_PROBLEM) = problem

\* C11: selecting none_observed makes the selection exactly [none_observed],
\* selecting any other option leaves none_observed out of the selection, and
\* in every reachable state none_observed is selected only as the sole member.
C11_NoneExclusive ==
    /\ [](PROBLEM_NONE \in Range(ProblemsOf(user_data))
            => ProblemsOf(user_data) = <<PROBLEM_NONE>>)
    /\ [][ProblemStep(PROBLEM_NONE) => ProblemsOf(user_data') = <<PROBLEM_NONE>>]_vars
    /\ [][\A o \in Range(PROBLEM_OPTIONS) \ {PROBLEM_NONE} :
             ProblemStep(o) => PROBLEM_NONE \notin Range(ProblemsOf(user_data'))]_vars

\* none_observed was selected over another selection, and another option after it
C11_Witness ==
    /\ Len(toggled) = 2
    /\ toggled[1].opt = PROBLEM_NONE /\ toggled[1].before = << <<"yellowing">> >>
    /\ toggled[2].opt = <<"other", "problem">> /\ toggled[2].before = <<PROBLEM_NONE>>
    /\ ProblemsOf(user_data) = << <<"other", "problem">> >>

\* C12: a callback in VISIBLE_PROBLEMS other than done keeps the machine in
\* VISIBLE_PROBLEMS; the done event moves to FERTILIZER and leaves the
\* selection as it is; and the survey goes from VISIBLE_PROBLEMS to another of
\* its states by no other step (/cancel ends the conversation, it does not
\* advance it).
C12_LeavesOnDoneOnly ==
    [][conv = "VISIBLE_PROBLEMS" =>
         /\ ProblemStep(PROBLEM_DONE)
              => conv' = "FERTILIZER" /\ ProblemsOf(user_data') = ProblemsOf(user_data)
         /\ (last'.handler = "handle_visible_problems" /\ ~ProblemStep(PROBLEM_DONE))
              => conv' = "VISIBLE_PROBLEMS"
         /\ conv' \notin {"VISIBLE_PROBLEMS", END} => ProblemStep(PROBLEM_DONE)
         /\ conv' = END => last'.handler = "cancel"]_vars

\* done after two toggles: the machine is in FERTILIZER with both selected
C12_Witness ==
    /\ conv = "FERTILIZER" /\ last.handler = "handle_visible_problems"
    /\ last.data = CALLBACK_PROBLEM \o PROBLEM_DONE
    /\ Len(ProblemsOf(user_data)) = 2


---------------------------------------------------------------------------
(* Restart and cancel.                                                     *)

\* the session holds no answers, location, destination path or photo count
SessionCleared(ud) ==
    /\ Get(ud, "survey", EmptyDict) = EmptyDict
    /\ {"location", "drive_folder", "photo_count"} \cap DOMAIN ud = {}

\* C13: whenever the last update was the 'add new farm' text, in a survey
\* state or outside a conversation, the session has been cleared and the
\* machine is in the restart entry state LANGUAGE.
C13_RestartAccepted ==
    last.data = AddNewFarmText => (conv = "LANGUAGE" /\ SessionCleared(user_data))

\* the step is handle_add_new_farm run on the 'add new farm' text
RestartStep ==
    /\ conv = END /\ conv' = "LANGUAGE"
    /\ last'.handler = "handle_add_new_farm" /\ last'.data = AddNewFarmText

\* C14: a restart issued after the language was chosen leaves the language as
\* it was and clears answers, location, destination path and photo_count.
C14_RestartKeepsLanguage ==
    [][(RestartStep /\ "language" \in DOMAIN user_data)
         => /\ "language" \in DOMAIN user_data'
            /\ user_data'["language"] = user_data["language"]
            /\ SessionCleared(user_data')]_vars

\* C15: after /cancel no conversation is active, the session holds no answers,
\* location or destination path, and a photo sent now is not accepted.
C15_CancelDiscards ==
    last.handler = "cancel"
      => /\ conv = END
         /\ SessionCleared(user_data)
         /\ ~handle_photo(user_data, UserId).accepted


---------------------------------------------------------------------------
(* The record sink and the photo counter.                                  *)

\* the step takes the survey to COMPLETE
CompleteStep ==
    /\ conv = "STRESS_EVENTS" /\ conv' = END
    /\ last'.handler = "handle_stress_events" /\ ~last'.raised

\* C16: the step that takes a survey to COMPLETE creates exactly one sink
\* task and no other step creates one; every row of the log is appended by one
\* of these tasks, one row each.
C16_SinkOncePerSurvey ==
    /\ [][sink' = sink + (IF CompleteStep THEN 1 ELSE 0)]_vars
    /\ [][rows' = rows \/ (rows' = rows + 1 /\ rows < sink)]_vars
    /\ [](rows <= sink)

\* a survey in which a stale button was pressed has been completed and its
\* row has been appended
C16_Witness ==
    /\ sink = 1 /\ rows = 1 /\ stale > 0
    /\ conv = END /\ last.handler = "handle_stress_events"

\* context.user_data.get('photo_count', 0)
PhotoCount(ud) == Get(ud, "photo_count", 0)

---------------------------------------------------------------------------
(* Further properties of the upload queue.                                 *)

RealTasks(q) == {i \in DOMAIN q : q[i] # Sentinel}

\* C18: when add_task returns, the task is in the queue and a worker
\* coroutine is live, whether or not stop() was called before or is in flight.
C18_AddTaskHasWorker ==
    [][added' = added + 1
         => /\ queue' # <<>> /\ queue'[Len(queue')].id = added'
            /\ Live(workers') # {}]_vars

\* the step is a return of stop(): after the awaited worker ended, or at once
\* when there was no worker task
StopReturns ==
    \/ stopper.pc = "awaiting" /\ stopper'.pc = "idle"
    \/ stopper.pc = "idle" /\ stopper'.pc = "idle" /\ stopper'.calls = stopper.calls + 1

\* C19: when stop() returns, every task queued before it was processed, the
\* sentinel was consumed, and no worker is live: the queue is empty.
C19_StopDrains ==
    [][StopReturns => (queue' = <<>> /\ Live(workers') = {})]_vars

Starts(t) == {i \in DOMAIN events : events[i] = <<"start", t>>}

\* C20: a task is taken for processing at most once, also when it fails, and
\* is not put back into the queue; a failure does not end the worker, which
\* goes on to the next task: every task that was started before another one
\* has ended or is the one in processing.
C20_FailureNoBlock ==
    /\ \A t \in 1..added : Cardinality(Starts(t)) <= 1
    /\ \A t \in 1..added : Starts(t) # {} => \A i \in DOMAIN queue : queue[i].id # t
    /\ \A w \in DOMAIN workers : workers[w].pc # "done"
    /\ \A i \in DOMAIN events :
          events[i][1] = "fail" =>
             \A j \in DOMAIN events : (j > i /\ events[j][1] = "start")
                 => \E k \in (i + 1)..(j - 1) : events[k] = <<"end", events[i][2]>>

\* the first task failed, and the second was processed to the end after it
C20_Witness ==
    \E i, j \in DOMAIN events :
       /\ i < j
       /\ events[i] = <<"fail", 1>>
       /\ events[j] = <<"end", 2>>


\* C21: every task that failed and whose processing has ended was reported:
\* through its on_failure callback, or by the default notice when it has none.
C21_FailureNotified ==
    \A i, j \in DOMAIN events :
       (events[i][1] = "fail" /\ events[j] = <<"end", events[i][2]>>)
          => \E k \in 1..(j - 1) :
                events[k] \in {<<"on_failure", events[i][2]>>,
                               <<"send_message", events[i][2]>>}

\* create_folder_path of the upload has returned a folder id
HasFolder(b) == b.pc = "file" \/ b.creates > 0

\* C25: of two create_folder_path calls in sequence with the same path, the
\* second issues no list or create request, and returns the folder id that the
\* first returned.
C25_SecondCallCached ==
    \A i, j \in DOMAIN bg :
       (i < j /\ bg[i].folder = bg[j].folder /\ HasFolder(bg[i]))
          => /\ bg[j].reqs = 0
             /\ HasFolder(bg[j]) => bg[j].parent = bg[i].parent

C25_Witness ==
    /\ Len(bg) = 2
    /\ bg[1].folder = bg[2].folder
    /\ bg[1].reqs > 1
    /\ bg[1].result = "success"
    /\ bg[2].result = "success"
    /\ bg[2].parent \in {f.id : f \in folders}

\* C26: a failure result of upload_file after a transient error of the
\* file-creation request is reported only after three attempts of the request.
C26_FileCreateRetried ==
    \A i \in DOMAIN bg :
       (bg[i].result = "failure" /\ bg[i].out = "transient" /\ bg[i].creates > 0)
          => bg[i].creates = 3

\* C27: upload_file never raises.  A missing local file gives a failure result
\* with no backend request issued; an error of folder resolution that the
\* retries did not cure, or of the file creation, gives a failure result.
C27_UploadFileNeverRaises ==
    \A i \in DOMAIN bg :
       /\ bg[i].result # "raised"
       /\ bg[i].out = "gone"
            => bg[i].result = "failure" /\ bg[i].reqs = 0 /\ bg[i].creates = 0
       /\ (bg[i].out \in {"transient", "permanent"}
             /\ bg[i].pc \in {"notify", "cleanup", "done"})
            => bg[i].result = "failure"

C27_Witness ==
    /\ Len(bg) = 2
    /\ bg[1].out = "gone"
    /\ bg[1].pc = "done"
    /\ bg[2].out = "transient"
    /\ bg[2].attempt = folder_max_attempts
    /\ bg[2].creates = 0
    /\ bg[2].pc = "done"

\* C28: after a permanent backend error the request is not issued again: the
\* upload has its failure result at once.
C28_PermanentNotRetried ==
    \A i \in DOMAIN bg : bg[i].out = "permanent" => bg[i].result = "failure"

\* C29: the remote folder holds at most one farm_surveys.csv, and exactly one
\* once an upload_csv call has ended.
C29_OneRemoteLog ==
    /\ Cardinality(remote) <= 1
    /\ (\E i \in DOMAIN csvs : csvs[i].pc = "done") => Cardinality(remote) = 1

\* C30: the local survey log has at most one header row, and exactly one once
\* a row has been written.
C30_OneHeader ==
    /\ headers <= 1
    /\ rows > 0 => headers = 1

\* C31: a SOIL_ROUGHNESS event handled while the growth-stage image cannot be
\* opened still records soil_roughness, puts the growth-stage prompt on screen
\* and moves the conversation to GROWTH_STAGE.
C31_ImageFailureNoBlock ==
    (~image_ok /\ last.handler = "handle_soil_roughness")
       => /\ ~last.raised
          /\ conv = "GROWTH_STAGE"
          /\ prompt = "growth"
          /\ Answer("soil_roughness") # Unset

\* the session of a user, with photos of this user and of another one
OwnerNext == Start \/ Location \/ PressInLine \/ Photo \/ ForeignPhoto

OwnerSpec == Init /\ [][OwnerNext]_vars

\* the step handles a photo whose sender is not the survey_user_id of the session
ForeignPhotoStep ==
    /\ last'.handler = "handle_photo"
    /\ last'.data[1] # Get(user_data, "survey_user_id", last'.data[1])

\* C32: a photo of a user who is not the survey_user_id of the session is
\* answered with the own-survey-only notice and changes nothing: photo_count,
\* answers, destination path and conversation state stay, no upload is created.
C32_ForeignPhotoRejected ==
    [][ForeignPhotoStep
          => /\ last'.data[2] = "photo_own_survey_only"
             /\ user_data' = user_data
             /\ conv' = conv
             /\ bg' = bg
             /\ accepted' = accepted]_vars

C32_Witness ==
    /\ last.handler = "handle_photo"
    /\ last.data = <<OtherUserId, "photo_own_survey_only">>
    /\ user_data["survey_user_id"] = UserId
    /\ PhotoCount(user_data) = 1
    /\ Len(bg) = 1

\* C36: a photo is accepted only when a survey of the session has reached
\* COMPLETE.
C36_AcceptedAfterComplete == accepted > 0 => sink > 0

\* C37: no two accepted photos of the session with the same destination path
\* have the same sequence number.
C37_DistinctPhotoNumbers ==
    \A i, j \in DOMAIN bg :
       (i < j /\ bg[i].folder = bg[j].folder) => bg[i].num # bg[j].num

\* C33: when the processing of a task has ended, whatever its outcome, the
\* file at its local_path does not exist.
C33_StagedFileRemoved ==
    \A j \in DOMAIN events :
       events[j][1] = "end" => ~StagedFile(SubSeq(events, 1, j), events[j][2])

\* two tasks have ended: one whose download raised and left a partial file,
\* one whose upload failed and whose notification raised
C33_Witness ==
    \E a, b \in 1..MaxTasks :
       /\ \E i, j, k \in DOMAIN events :
             /\ i < j /\ j < k
             /\ events[i] = <<"staged", a>>
             /\ events[j] = <<"fail", a>>
             /\ events[k] = <<"end", a>>
             /\ \A u \in DOMAIN uploads : uploads[u].id # a
       /\ \E u \in DOMAIN uploads : uploads[u].id = b
       /\ \E i, j, k \in DOMAIN events :
             /\ i < j /\ j < k
             /\ events[i] = <<"fail", b>>
             /\ events[j] = <<"notice_raised", b>>
             /\ events[k] = <<"end", b>>

\* C34: an entry of the folder cache stays, with the id it has, across every
\* step of the gateway (clear_folder_cache has no caller).
C34_CacheEntryStable ==
    [][\A k \in DOMAIN cache : k \in DOMAIN cache' /\ cache'[k] = cache[k]]_vars

\* the session of a user and the calls of get_drive_service made for it
ServiceNext == Start \/ Location \/ PressInLine \/ GetDriveService

ServiceSpec == Init /\ [][ServiceNext]_vars

\* C39: a DriveService that get_drive_service returns has its backend
\* connection; after a first construction that failed validation every call
\* raises.
C39_NoHalfInitialized ==
    /\ drive.last = "returned" => drive.service
    /\ drive.config = "invalid" => drive.last = "raised"

\* C38: whenever the conversation is in HERBICIDE, fertilizer and
\* fertilizer_type are set, and fertilizer_type is other than N/A only if
\* fertilizer is "yes".
C38_HerbicideHasFertilizer ==
    conv = "HERBICIDE"
       => /\ Answer("fertilizer") # Unset
          /\ Answer("fertilizer_type") # Unset
          /\ Answer("fertilizer_type") # VALUE_NA => Answer("fertilizer") = <<"yes">>


---------------------------------------------------------------------------
(* The order of the survey's states, and the handlers that take an answer. *)

CanonicalOrder ==
    <<"LANGUAGE", "LOCATION", "FARM_NUMBER", "RAINFALL", "RAINFALL_INTENSITY",
      "SOIL_ROUGHNESS", "GROWTH_STAGE", "WATER_STATUS", "OVERALL_HEALTH",
      "VISIBLE_PROBLEMS", "FERTILIZER", "HERBICIDE", "PESTICIDE",
      "STRESS_EVENTS", END>>

Rank(state) == CHOOSE i \in DOMAIN CanonicalOrder : CanonicalOrder[i] = state

AnswerHandlers ==
    {"handle_location"} \cup
    {HandlerName(state, data) : state \in CallbackStates,
                                data \in {<<"fert", "type", "urea">>, <<"fert", "yes">>}}

\* C40: no answer event moves the conversation to a state earlier in the
\* order LANGUAGE, LOCATION, FARM_NUMBER, ..., STRESS_EVENTS, COMPLETE: after
\* a step in which an answer handler ran, the state is the one before the
\* step or a later one (a handler that raised leaves the state as it was).
C40_AnswersNeverGoBack ==
    [][last'.handler \in AnswerHandlers => Rank(conv') >= Rank(conv)]_vars

\* an answer that skips a state: rainfall "no" goes from RAINFALL to
\* SOIL_ROUGHNESS
C40_Witness ==
    /\ last.handler = "handle_rainfall"
    /\ ~last.raised
    /\ conv = "SOIL_ROUGHNESS"


---------------------------------------------------------------------------
(* The upload queue under fair scheduling: the event loop resumes every    *)
(* coroutine that can run, so each _worker that can take a step takes one, *)
(* and a stop() whose awaited worker has returned is resumed.  add_task    *)
(* and stop are calls of the program's other handlers and are not forced.  *)

WorkerStep(w) ==
    /\ w \in DOMAIN workers
    /\ WorkerNext
    /\ workers'[w] # workers[w]

QueueFairSpec ==
    /\ Init
    /\ [][QueueNext]_vars
    /\ \A w \in 1..MaxWorkers : WF_vars(WorkerStep(w))
    /\ WF_vars(StopEnd)

Processed(id) == \E i \in DOMAIN events : events[i] = <<"end", id>>

\* C35: under fair scheduling every task added with add_task is eventually
\* processed by a worker (its _process_task runs to the end), for any
\* interleaving of add_task and stop calls.
C35_EveryTaskProcessed ==
    \A id \in 1..MaxTasks : (added >= id) ~> Processed(id)

---------------------------------------------------------------------------
(* The whole program.                                                      *)

Next ==
    \/ SurveyNext \/ QueueNext \/ QueueFaultNext \/ PhotoNext \/ SessionNext
    \/ RetryNext \/ DriveNext \/ CsvNext \/ OwnerNext \/ ServiceNext

Spec == Init /\ [][Next]_vars

===========================================================================
